---- MODULE Spec2Model ----
(***************************************************************************)
(* Transaction layer of src/database/sql: one ConnectionPool, the          *)
(* Transactions it mints, and the callers that run execute / fetch_all /   *)
(* stream_data / bulk_change / commit / rollback on them.                  *)
(*                                                                         *)
(* A Transaction is Arc<Mutex<Option<sqlx::Transaction>>>: `handle[t]` is  *)
(* the Option, `mutex[t]` the tokio Mutex.  A native transaction is a      *)
(* handle id; `hstate` says what the backend did with it.  Every operation *)
(* is split where the code awaits the driver: the first step runs up to    *)
(* the driver call, the second from the driver's answer to the return.     *)
(***************************************************************************)
EXTENDS Integers, Sequences, FiniteSets, TLC

\* ---------------------------------------------------------------- bounds
NumTx == 2              \* Transaction objects that can be created
NumCallers == 2         \* concurrent callers (tasks holding a reference)
MaxHandles == 3         \* native transactions the pool can begin in a run
MaxConnections == 1     \* DatabaseConfig.max_connections of the pool
MaxItems == 1           \* parameter sets of one bulk_change (Spec, SpecSeq)
BulkItems == 5          \* parameter sets of one bulk_change (SpecBulk)
MaxBatch == 3           \* largest batch_size (SpecBulk)
MaxRowsAffected == 2    \* largest rows-affected of one statement (SpecBulk)
MaxRows == 5            \* rows a cursor yields (SpecStream)
MaxChunk == 3           \* largest chunk_size (SpecStream)
MaxQuery == 5           \* characters of a query text (SpecBinder)
NumParams == 11         \* parameters given with such a query (SpecBinder)
MaxParams == 2          \* parameters of every Python kind (SpecBinder)
MaxCols == 2            \* columns of a result row (SpecBinder)
MaxFetch == 2           \* items the driver yields for one query (SpecBinder)
MaxPoolSize == 2        \* max_connections of a DatabaseConfig (SpecConfig)
MaxIdleTimeout == 31    \* idle_timeout of a DatabaseConfig, in seconds (SpecConfig)

Tx == 1..NumTx
Callers == 1..NumCallers
HandleIds == 1..MaxHandles
None == 0               \* Option::None of the handle slot
Free == 0               \* the mutex is not held
Drivers == {"Postgres", "MySql", "Sqlite"}
Keys == 0..NumCallers   \* context ids: request r has id r, 0 is the empty id ""

VARIABLES
    driver,     \* DatabaseType of the pool (connection.rs:15-19)
    reachable,  \* whether the backend answers pool.begin()
    txs,        \* Transactions created so far
    handle,     \* handle[t]: the Option<sqlx::Transaction> of t
    dirty,      \* dirty[t]: the Transaction's dirty flag
    mutex,      \* mutex[t]: caller holding t's Mutex, or Free
    hstate,     \* hstate[h]: "unused" | "open" | "committed" | "rolledback"
    call,       \* call[c]: the operation caller c is inside
    ret,        \* the operation that returned last, and what it returned
    connection, \* SQL_DATABASE_CONNECTION: "starting" | "absent" | "set" | "panicked"
    registry,   \* SQL_SESSION_MAPPING: registry[k] is the Transaction under k, or None
    req         \* req[c]: where caller c is in execute_request, and what it holds

vars == <<driver, reachable, txs, handle, dirty, mutex, hstate, call, ret, connection, registry, req>>

\* The server's part of the state.
server == <<connection, registry, req>>

\* ------------------------------------------------------------ the pool
\* Connections checked out of the pool: one per open native transaction.
InUse == Cardinality({h \in HandleIds : hstate[h] = "open"})

HasFresh == \E h \in HandleIds : hstate[h] = "unused"

\* The native transaction the next pool.begin() returns.
Fresh == CHOOSE h \in HandleIds : hstate[h] = "unused" /\ \A k \in HandleIds : hstate[k] = "unused" => h <= k

\* A pool that hands out connections without counting them.
PoolBegins_unbounded(inUse) == reachable

\* pool.begin() succeeds: the backend answers and a connection is free
\* before the acquire timeout.
PoolBegins(inUse) == reachable /\ inUse < MaxConnections

\* begin_transaction that maps every answer of pool.begin() to None.
begin_transaction_always_none(ok, fresh) == None

\* DatabaseConnection::begin_transaction: Some(fresh) or, on any failure
\* of pool.begin(), None.
begin_transaction(ok, fresh) == IF ok THEN fresh ELSE None

Idle == [pc |-> "idle", t |-> 0, h |-> None]
NoRet == [c |-> 0, op |-> "none", t |-> 0, res |-> "none", pre |-> None, post |-> None,
          dpre |-> FALSE, dpost |-> FALSE, ncalls |-> 0, info |-> <<>>]

\* What an operation on t hands back: res is the outcome, pre and post the
\* slot when the operation reached it and when it returned, dpre and dpost
\* the dirty flag likewise, ncalls the driver calls made on a native
\* transaction, info what else the operation reports.
Result(op, t, res, pre, post, dpre, dpost, ncalls, info) ==
    [c |-> 0, op |-> op, t |-> t, res |-> res, pre |-> pre, post |-> post,
     dpre |-> dpre, dpost |-> dpost, ncalls |-> ncalls, info |-> info]

\* A caller that has not entered execute_request: ctx is the context id
\* of the response, tx the Transaction the request put in the registry,
\* held and key the Transaction its Python code got from the registry and
\* the id it asked for, out how the request ended.
NewReq == [pc |-> "new", ctx |-> 0, tx |-> None, held |-> None, key |-> 0, out |-> "none"]

Init ==
    /\ connection = "set"
    /\ registry = [k \in Keys |-> None]
    /\ req = [c \in Callers |-> NewReq]
    /\ driver \in Drivers
    /\ reachable = TRUE
    /\ txs = {}
    /\ handle = [t \in Tx |-> None]
    /\ dirty = [t \in Tx |-> FALSE]
    /\ mutex = [t \in Tx |-> Free]
    /\ hstate = [h \in HandleIds |-> "unused"]
    /\ call = [c \in Callers |-> Idle]
    /\ ret = NoRet

\* The backend goes away or comes back: pool.begin() then fails or works.
PoolFlip ==
    /\ reachable' = ~reachable
    /\ UNCHANGED <<driver, txs, handle, dirty, mutex, hstate, call, ret>>
    /\ UNCHANGED server

\* A wrapping that tags every Transaction as a Postgres one.
TagOf_always_postgres(conn) == [variant |-> "Postgres", db |-> "PostgresDatabase"]

\* The arm of `match &self.connection` that wraps the native transaction:
\* the DatabaseTransactionType variant and the backend struct (with its
\* ParameterBinder) put next to it.
TagOf(conn) ==
    CASE conn = "Postgres" -> [variant |-> "Postgres", db |-> "PostgresDatabase"]
      [] conn = "MySql" -> [variant |-> "MySql", db |-> "MySqlDatabase"]
      [] conn = "Sqlite" -> [variant |-> "SQLite", db |-> "SqliteDatabase"]

\* DatabaseConnection::transaction: pool.begin().await, unwrap(), wrap in
\* Arc<Mutex<Some(..)>>.  A failed begin panics in unwrap().
transaction(c, t) ==
    /\ call[c].pc = "idle"
    /\ t \notin txs
    /\ \A u \in Tx : u < t => u \in txs
    /\ IF PoolBegins(InUse)
       THEN /\ HasFresh
            /\ txs' = txs \cup {t}
            /\ handle' = [handle EXCEPT ![t] = Fresh]
            /\ dirty' = [dirty EXCEPT ![t] = FALSE]
            /\ hstate' = [hstate EXCEPT ![Fresh] = "open"]
            /\ ret' = [Result("transaction", t, "Ok", None, Fresh, FALSE, FALSE, 0, TagOf(driver))
                          EXCEPT !.c = c]
       ELSE /\ ret' = [Result("transaction", t, "Panic", None, None, FALSE, FALSE, 0, <<>>) EXCEPT !.c = c]
            /\ UNCHANGED <<txs, handle, dirty, hstate>>
    /\ UNCHANGED <<driver, reachable, mutex, call>>

\* The operation returns r to caller c.
Return(c, r) ==
    /\ ret' = [r EXCEPT !.c = c]
    /\ call' = [call EXCEPT ![c] = Idle]

\* Caller c is now awaiting the driver inside operation op on t, using
\* native transaction h; what its previous operation returned is gone.
Await(c, op, t, h) ==
    /\ call' = [call EXCEPT ![c] = [pc |-> op, t |-> t, h |-> h]]
    /\ ret' = IF ret.c = c THEN NoRet ELSE ret

\* A result that leaves the Transaction as it found it.
Untouched(op, t, res) ==
    Result(op, t, res, handle[t], handle[t], dirty[t], dirty[t], 0, <<>>)

\* --------------------------------------------- the two ways to the slot
\* bind_parameters(..)?; let mut guard = transaction.lock().await;
\* let transaction = guard.as_mut().unwrap();
\* A binder error returns before the lock; an empty slot panics in
\* unwrap() (the unwinding drops the guard); otherwise the guard is kept
\* while the driver is awaited.
BorrowCall(c, t, op, bindOk) ==
    IF ~bindOk
    THEN /\ Return(c, Untouched(op, t, "BindError"))
         /\ UNCHANGED <<handle, mutex>>
    ELSE /\ mutex[t] = Free
         /\ IF handle[t] = None
            THEN /\ Return(c, Untouched(op, t, "Panic"))
                 /\ UNCHANGED <<handle, mutex>>
            ELSE /\ mutex' = [mutex EXCEPT ![t] = c]
                 /\ Await(c, op, t, handle[t])
                 /\ UNCHANGED handle

\* A stream_data that reads the cursor through the slot without taking the
\* native transaction out of it.
TakeCall_without_take(c, t, op, bindOk) ==
    IF ~bindOk
    THEN /\ Return(c, Untouched(op, t, "BindError"))
         /\ UNCHANGED <<handle, mutex>>
    ELSE /\ mutex[t] = Free
         /\ IF handle[t] = None
            THEN /\ Return(c, Untouched(op, t, "Panic"))
                 /\ UNCHANGED <<handle, mutex>>
            ELSE /\ Await(c, op, t, handle[t])
                 /\ UNCHANGED <<handle, mutex>>

\* bind_parameters(..)?; let mut guard = transaction.lock().await.take().unwrap();
\* The MutexGuard is a temporary of the let statement: the native
\* transaction is moved out of the slot into the local and the lock is
\* released before the driver is awaited.
TakeCall(c, t, op, bindOk) ==
    IF ~bindOk
    THEN /\ Return(c, Untouched(op, t, "BindError"))
         /\ UNCHANGED <<handle, mutex>>
    ELSE /\ mutex[t] = Free
         /\ IF handle[t] = None
            THEN /\ Return(c, Untouched(op, t, "Panic"))
                 /\ UNCHANGED <<handle, mutex>>
            ELSE /\ handle' = [handle EXCEPT ![t] = None]
                 /\ Await(c, op, t, handle[t])
                 /\ UNCHANGED mutex

\* The driver answered a call made through a borrow: map_err(..)?, the
\* guard is dropped at the return, the slot still holds the transaction.
BorrowDone(c, op, ok) ==
    LET t == call[c].t
        h == call[c].h
    IN  /\ mutex' = [mutex EXCEPT ![t] = Free]
        /\ Return(c, Result(op, t, IF ok THEN "Ok" ELSE "QueryError",
                            h, handle[t], dirty[t], dirty[t], 1, <<>>))
        /\ UNCHANGED <<handle, hstate>>

\* The driver answered a call made on a taken transaction: the local that
\* owns it goes out of scope at the return, and dropping an open
\* sqlx::Transaction rolls it back and gives its connection back.
TakeDoneWith(c, op, ok, info) ==
    LET t == call[c].t
        h == call[c].h
    IN  /\ hstate' = [hstate EXCEPT ![h] = "rolledback"]
        /\ Return(c, Result(op, t, IF ok THEN "Ok" ELSE "QueryError",
                            h, handle[t], dirty[t], dirty[t], 1, info))
        /\ UNCHANGED <<handle, mutex>>

TakeDone(c, op, ok) == TakeDoneWith(c, op, ok, <<>>)

\* ------------------------------------------------------------- execute
Postgres_execute(c, t, bindOk) == BorrowCall(c, t, "execute", bindOk)
Sqlite_execute(c, t, bindOk) == BorrowCall(c, t, "execute", bindOk)
MySql_execute(c, t, bindOk) == TakeCall(c, t, "execute", bindOk)

execute(c, t, bindOk) ==
    /\ call[c].pc = "idle"
    /\ t \in txs
    /\ CASE driver = "Postgres" -> Postgres_execute(c, t, bindOk)
         [] driver = "MySql" -> MySql_execute(c, t, bindOk)
         [] driver = "Sqlite" -> Sqlite_execute(c, t, bindOk)
    /\ UNCHANGED <<driver, reachable, txs, dirty, hstate>>

Postgres_execute_done(c, ok) == BorrowDone(c, "execute", ok)
Sqlite_execute_done(c, ok) == BorrowDone(c, "execute", ok)
MySql_execute_done(c, ok) == TakeDone(c, "execute", ok)

execute_done(c, ok) ==
    /\ call[c].pc = "execute"
    /\ CASE driver = "Postgres" -> Postgres_execute_done(c, ok)
         [] driver = "MySql" -> MySql_execute_done(c, ok)
         [] driver = "Sqlite" -> Sqlite_execute_done(c, ok)
    /\ UNCHANGED <<driver, reachable, txs, dirty>>

\* ----------------------------------------------------------- fetch_all
\* All three backends borrow: lock, guard.as_mut().unwrap(), fetch_all,
\* then bind_result on every row; a driver error or a bind_result error
\* is the QueryError outcome.
Postgres_fetch_all(c, t, bindOk) == BorrowCall(c, t, "fetch_all", bindOk)
MySql_fetch_all(c, t, bindOk) == BorrowCall(c, t, "fetch_all", bindOk)
Sqlite_fetch_all(c, t, bindOk) == BorrowCall(c, t, "fetch_all", bindOk)

fetch_all(c, t, bindOk) ==
    /\ call[c].pc = "idle"
    /\ t \in txs
    /\ CASE driver = "Postgres" -> Postgres_fetch_all(c, t, bindOk)
         [] driver = "MySql" -> MySql_fetch_all(c, t, bindOk)
         [] driver = "Sqlite" -> Sqlite_fetch_all(c, t, bindOk)
    /\ UNCHANGED <<driver, reachable, txs, dirty, hstate>>

fetch_all_done(c, ok) ==
    /\ call[c].pc = "fetch_all"
    /\ BorrowDone(c, "fetch_all", ok)
    /\ UNCHANGED <<driver, reachable, txs, dirty>>

\* --------------------------------------------------------- stream_data
\* All three backends take the transaction out of the slot, read the
\* cursor from the local, and return without putting it back.
Postgres_stream_data(c, t, bindOk) == TakeCall(c, t, "stream_data", bindOk)
MySql_stream_data(c, t, bindOk) == TakeCall(c, t, "stream_data", bindOk)
Sqlite_stream_data(c, t, bindOk) == TakeCall(c, t, "stream_data", bindOk)

stream_data(c, t, bindOk) ==
    /\ call[c].pc = "idle"
    /\ t \in txs
    /\ CASE driver = "Postgres" -> Postgres_stream_data(c, t, bindOk)
         [] driver = "MySql" -> MySql_stream_data(c, t, bindOk)
         [] driver = "Sqlite" -> Sqlite_stream_data(c, t, bindOk)
    /\ UNCHANGED <<driver, reachable, txs, dirty, hstate>>

\* What the cursor yields: n rows, of which row failAt (0: none) is a
\* driver error ("err") or a row bind_result rejects ("bad"); nothing is
\* read after it.
Cursor(n, failAt, kind) ==
    [i \in 1..n |-> [id |-> i, kind |-> IF i = failAt THEN kind ELSE "ok"]]

Cursors(maxRows) ==
    {Cursor(n, 0, "ok") : n \in 0..maxRows}
        \cup {Cursor(n, n, k) : n \in 1..maxRows, k \in {"err", "bad"}}

\* A loop that forgets the rows left over when the cursor ends.
RECURSIVE stream_loop_without_tail(_, _, _, _)
stream_loop_without_tail(rows, chunk_size, chunks, current_chunk) ==
    IF rows = <<>> THEN [res |-> "Ok", chunks |-> chunks]
    ELSE IF Head(rows).kind # "ok" THEN [res |-> "QueryError", chunks |-> <<>>]
    ELSE LET pushed == Append(current_chunk, Head(rows).id)
         IN  IF Len(pushed) >= chunk_size
             THEN stream_loop_without_tail(Tail(rows), chunk_size, Append(chunks, pushed), <<>>)
             ELSE stream_loop_without_tail(Tail(rows), chunk_size, chunks, pushed)

\* while let Some(row_result) = stream.next().await { .. }: a good row is
\* pushed on current_chunk, which moves to chunks once its length reaches
\* chunk_size; a failing row returns Err; after the loop a non-empty
\* current_chunk is pushed too.
RECURSIVE stream_loop(_, _, _, _)
stream_loop(rows, chunk_size, chunks, current_chunk) ==
    IF rows = <<>>
    THEN [res |-> "Ok",
          chunks |-> IF current_chunk # <<>> THEN Append(chunks, current_chunk) ELSE chunks]
    ELSE IF Head(rows).kind # "ok" THEN [res |-> "QueryError", chunks |-> <<>>]
    ELSE LET pushed == Append(current_chunk, Head(rows).id)
         IN  IF Len(pushed) >= chunk_size
             THEN stream_loop(Tail(rows), chunk_size, Append(chunks, pushed), <<>>)
             ELSE stream_loop(Tail(rows), chunk_size, chunks, pushed)

\* The cursor is exhausted (Ok(chunks)) or a row failed (Err): either way
\* the function returns and the local transaction is dropped.
stream_data_done(c, rows, chunk_size) ==
    LET out == stream_loop(rows, chunk_size, <<>>, <<>>)
    IN  /\ call[c].pc = "stream_data"
        /\ TakeDoneWith(c, "stream_data", out.res = "Ok",
                        [rows |-> rows, chunk_size |-> chunk_size, chunks |-> out.chunks])
        /\ UNCHANGED <<driver, reachable, txs, dirty>>

\* --------------------------------------------- commit, rollback, renew
\* A finish that commits whatever was asked for.
Finalized_always_commits(hs, h, how, backendOk) ==
    IF h = None THEN hs
    ELSE [hs EXCEPT ![h] = IF backendOk THEN "committed" ELSE "rolledback"]

\* The native transaction of t is finished by the backend: a commit that
\* succeeds commits it, a rollback or a failed commit leaves it rolled
\* back.  The failure itself is not reported to anybody.
Finalized(hs, h, how, backendOk) ==
    IF h = None THEN hs
    ELSE [hs EXCEPT ![h] = IF how = "commit" /\ backendOk THEN "committed" ELSE "rolledback"]

OpenIn(hs) == Cardinality({k \in HandleIds : hs[k] = "open"})

\* A renewal that is skipped when the backend call failed.
Renew_unless_failed(h, how, backendOk) ==
    LET hs == Finalized(hstate, h, how, backendOk)
        ok == PoolBegins(OpenIn(hs))
        new == IF backendOk THEN begin_transaction(ok, Fresh) ELSE None
    IN  [pool |-> ok, new |-> new,
         hs |-> IF new = None THEN hs ELSE [hs EXCEPT ![new] = "open"]]

\* Renewal: with the old native transaction finished, ask the pool for a
\* fresh one; `new` is what goes into the slot (None when the pool gives
\* none), `hs` the native transactions afterwards.
Renew(h, how, backendOk) ==
    LET hs == Finalized(hstate, h, how, backendOk)
        ok == PoolBegins(OpenIn(hs))
        new == begin_transaction(ok, Fresh)
    IN  [pool |-> ok, new |-> new,
         hs |-> IF new = None THEN hs ELSE [hs EXCEPT ![new] = "open"]]

\* Renewal can be taken in the model only while an unused handle id is left.
CanRenew(h, how) == PoolBegins(OpenIn(Finalized(hstate, h, how, TRUE))) => HasFresh

\* A finish that renews the handle and keeps the dirty flag as it was.
FinishAndRenew_keeping_dirty(c, op, backendOk) ==
    LET t == call[c].t
        h == handle[t]
    IN  /\ CanRenew(h, op)
        /\ LET r == Renew(h, op, backendOk)
           IN  /\ hstate' = r.hs
               /\ handle' = [handle EXCEPT ![t] = r.new]
               /\ dirty' = dirty
               /\ mutex' = [mutex EXCEPT ![t] = Free]
               /\ Return(c, Result(op, t, "Ok", h, r.new, dirty[t], dirty[t],
                                   IF h = None THEN 0 ELSE 1,
                                   [pool |-> r.pool, backendOk |-> backendOk]))

\* commit() / an effective rollback() from the finished backend call on:
\* withdraw the handle, finish it, renew, clear dirty, report success.
FinishAndRenew(c, op, backendOk) ==
    LET t == call[c].t
        h == handle[t]
    IN  /\ CanRenew(h, op)
        /\ LET r == Renew(h, op, backendOk)
           IN  /\ hstate' = r.hs
               /\ handle' = [handle EXCEPT ![t] = r.new]
               /\ dirty' = [dirty EXCEPT ![t] = FALSE]
               /\ mutex' = [mutex EXCEPT ![t] = Free]
               /\ Return(c, Result(op, t, "Ok", h, r.new, dirty[t], FALSE,
                                   IF h = None THEN 0 ELSE 1,
                                   [pool |-> r.pool, backendOk |-> backendOk]))

\* commit(): lock the slot for the whole operation.
commit(c, t) ==
    /\ call[c].pc = "idle"
    /\ t \in txs
    /\ mutex[t] = Free
    /\ mutex' = [mutex EXCEPT ![t] = c]
    /\ Await(c, "commit", t, handle[t])
    /\ UNCHANGED <<driver, reachable, txs, handle, dirty, hstate>>

commit_done(c, backendOk) ==
    /\ call[c].pc = "commit"
    /\ FinishAndRenew(c, "commit", backendOk)
    /\ UNCHANGED <<driver, reachable, txs>>

\* A rollback() that does not look at dirty.
rollback_ignoring_dirty(c, t) ==
    /\ call[c].pc = "idle"
    /\ t \in txs
    /\ mutex[t] = Free
    /\ mutex' = [mutex EXCEPT ![t] = c]
    /\ Await(c, "rollback", t, handle[t])
    /\ UNCHANGED <<driver, reachable, txs, handle, dirty, hstate>>

\* rollback(): nothing at all unless dirty.
rollback(c, t) ==
    /\ call[c].pc = "idle"
    /\ t \in txs
    /\ IF ~dirty[t]
       THEN /\ Return(c, Untouched("rollback", t, "Ok"))
            /\ UNCHANGED mutex
       ELSE /\ mutex[t] = Free
            /\ mutex' = [mutex EXCEPT ![t] = c]
            /\ Await(c, "rollback", t, handle[t])
    /\ UNCHANGED <<driver, reachable, txs, handle, dirty, hstate>>

rollback_done(c, backendOk) ==
    /\ call[c].pc = "rollback"
    /\ FinishAndRenew(c, "rollback", backendOk)
    /\ UNCHANGED <<driver, reachable, txs>>

\* --------------------------------------------------------- bulk_change
Min(a, b) == IF a <= b THEN a ELSE b

\* <[T]>::chunks_exact(n): only the full slices, the remainder left out.
RECURSIVE chunks_exact(_, _)
chunks_exact(s, n) ==
    IF Len(s) < n THEN <<>>
    ELSE <<SubSeq(s, 1, n)>> \o chunks_exact(SubSeq(s, n + 1, Len(s)), n)

\* <[T]>::chunks(n): consecutive slices of n elements, the last one shorter.
RECURSIVE chunks(_, _)
chunks(s, n) ==
    IF Len(s) = 0 THEN <<>>
    ELSE <<SubSeq(s, 1, Min(n, Len(s)))>> \o chunks(SubSeq(s, Min(n, Len(s)) + 1, Len(s)), n)

\* A parameter set is what happens when it is bound and executed: "ok"
\* with its rows-affected, "bind" (bind_parameters fails), "exec" (the
\* driver fails).  idx is its place in the input.
Indexed(params) ==
    [i \in 1..Len(params) |-> [idx |-> i, kind |-> params[i].kind, rows |-> params[i].rows]]

\* A loop turn that notes the first error and carries on with the rest.
RunSet_best_effort(acc, p) ==
    IF p.kind = "bind"
    THEN IF acc.res # "Ok" THEN acc ELSE [acc EXCEPT !.res = "BindError", !.err = p.idx]
    ELSE IF p.kind = "exec"
         THEN IF acc.res # "Ok" THEN [acc EXCEPT !.sent = Append(@, p.idx)]
              ELSE [acc EXCEPT !.res = "QueryError", !.err = p.idx, !.sent = Append(@, p.idx)]
    ELSE [acc EXCEPT !.total = @ + p.rows, !.sent = Append(@, p.idx)]

\* One turn of the inner loop: bind_parameters(..)?, execute(..)?,
\* total_affected += rows_affected.  Once a `?` has returned nothing runs.
RunSet(acc, p) ==
    IF acc.res # "Ok" THEN acc
    ELSE IF p.kind = "bind" THEN [acc EXCEPT !.res = "BindError", !.err = p.idx]
    ELSE IF p.kind = "exec"
         THEN [acc EXCEPT !.res = "QueryError", !.err = p.idx, !.sent = Append(@, p.idx)]
    ELSE [acc EXCEPT !.total = @ + p.rows, !.sent = Append(@, p.idx)]

RECURSIVE RunChunk(_, _)
RunChunk(acc, chunk) ==
    IF chunk = <<>> THEN acc ELSE RunChunk(RunSet(acc, Head(chunk)), Tail(chunk))

RECURSIVE RunChunks(_, _)
RunChunks(acc, cs) ==
    IF cs = <<>> THEN acc ELSE RunChunks(RunChunk(acc, Head(cs)), Tail(cs))

\* for chunk in params.chunks(batch_size) { for param_set in chunk { .. } }
\* res is the outcome, total the sum of rows-affected, sent the parameter
\* sets handed to the driver in order, err the parameter set whose error
\* is returned, groups the chunks.
bulk_loop(params, batch_size) ==
    LET cs == chunks(Indexed(params), batch_size)
    IN  [RunChunks([res |-> "Ok", total |-> 0, sent |-> <<>>, err |-> 0, groups |-> <<>>], cs)
            EXCEPT !.groups = [g \in 1..Len(cs) |-> [k \in 1..Len(cs[g]) |-> cs[g][k].idx]]]

\* PostgresDatabase::bulk_change up to the loop: lock, then
\* guard.as_mut().ok_or_else(|| "No active transaction")?.
Postgres_bulk_change(c, t) ==
    /\ mutex[t] = Free
    /\ IF handle[t] = None
       THEN /\ Return(c, Untouched("bulk_change", t, "NoActiveTransaction"))
            /\ UNCHANGED mutex
       ELSE /\ mutex' = [mutex EXCEPT ![t] = c]
            /\ Await(c, "bulk_change", t, handle[t])

Sqlite_bulk_change(c, t) ==
    /\ mutex[t] = Free
    /\ IF handle[t] = None
       THEN /\ Return(c, Untouched("bulk_change", t, "NoActiveTransaction"))
            /\ UNCHANGED mutex
       ELSE /\ mutex' = [mutex EXCEPT ![t] = c]
            /\ Await(c, "bulk_change", t, handle[t])

\* MySqlDatabase has no bulk_change.
bulk_change(c, t) ==
    /\ call[c].pc = "idle"
    /\ t \in txs
    /\ driver # "MySql"
    /\ CASE driver = "Postgres" -> Postgres_bulk_change(c, t)
         [] driver = "Sqlite" -> Sqlite_bulk_change(c, t)
    /\ UNCHANGED <<driver, reachable, txs, handle, dirty, hstate>>

\* A Transaction that hands the loop's error on and does nothing else.
bulk_outcome_without_rollback(c, t, h, args, out, backendOk) ==
    /\ dirty' = [dirty EXCEPT ![t] = TRUE]
    /\ Return(c, Result("bulk_change", t, out.res, h, h, dirty[t], TRUE, Len(out.sent),
                        [args |-> args, out |-> out, pool |-> PoolBegins(InUse)]))
    /\ UNCHANGED <<handle, hstate>>

\* A Transaction that leaves dirty alone after a full success.
bulk_outcome_without_dirty(c, t, h, args, out, backendOk) ==
    IF out.res = "Ok"
    THEN /\ Return(c, Result("bulk_change", t, "Ok", h, h, dirty[t], dirty[t], Len(out.sent),
                             [args |-> args, out |-> out]))
         /\ UNCHANGED <<handle, hstate, dirty>>
    ELSE /\ CanRenew(h, "rollback")
         /\ LET r == Renew(h, "rollback", backendOk)
            IN  /\ hstate' = r.hs
                /\ handle' = [handle EXCEPT ![t] = r.new]
                /\ dirty' = [dirty EXCEPT ![t] = FALSE]
                /\ Return(c, Result("bulk_change", t, out.res, h, r.new, dirty[t], FALSE,
                                    Len(out.sent) + 1,
                                    [args |-> args, out |-> out, pool |-> r.pool]))

\* What the Transaction does with the outcome of the loop: a full success
\* sets dirty and returns the total; an error sets dirty, rolls back with
\* renewal (which clears dirty) and returns the error.
bulk_outcome(c, t, h, args, out, backendOk) ==
    IF out.res = "Ok"
    THEN /\ dirty' = [dirty EXCEPT ![t] = TRUE]
         /\ Return(c, Result("bulk_change", t, "Ok", h, h, dirty[t], TRUE, Len(out.sent),
                             [args |-> args, out |-> out]))
         /\ UNCHANGED <<handle, hstate>>
    ELSE /\ CanRenew(h, "rollback")
         /\ LET r == Renew(h, "rollback", backendOk)
            IN  /\ hstate' = r.hs
                /\ handle' = [handle EXCEPT ![t] = r.new]
                /\ dirty' = [dirty EXCEPT ![t] = FALSE]
                /\ Return(c, Result("bulk_change", t, out.res, h, r.new, dirty[t], FALSE,
                                    Len(out.sent) + 1,
                                    [args |-> args, out |-> out, pool |-> r.pool]))

\* The loop has run and bulk_change returns: the guard is dropped, the
\* outcome of the loop goes to the caller through the Transaction.
\* chunks(0) panics, and a panic passes through untouched.
bulk_change_done(c, params, batch_size, backendOk) ==
    LET t == call[c].t
        h == call[c].h
        args == [params |-> params, batch_size |-> batch_size]
    IN  /\ call[c].pc = "bulk_change"
        /\ mutex' = [mutex EXCEPT ![t] = Free]
        /\ IF batch_size = 0
           THEN /\ Return(c, Result("bulk_change", t, "Panic", h, h, dirty[t], dirty[t], 0,
                                    [args |-> args]))
                /\ UNCHANGED <<handle, dirty, hstate>>
           ELSE bulk_outcome(c, t, h, args, bulk_loop(params, batch_size), backendOk)
        /\ UNCHANGED <<driver, reachable, txs>>

\* ------------------------------------------------------------- inputs
ParamSets(R) ==
    {[kind |-> "ok", rows |-> r] : r \in R}
        \cup {[kind |-> "bind", rows |-> 0], [kind |-> "exec", rows |-> 0]}

SeqsUpTo(S, n) == UNION {[1..k -> S] : k \in 0..n}

\* Everything a caller can do.
Calls(c) ==
    \/ \E t \in Tx : transaction(c, t) /\ UNCHANGED server
    \/ \E t \in Tx, b \in BOOLEAN : execute(c, t, b) /\ UNCHANGED server
    \/ \E ok \in BOOLEAN : execute_done(c, ok) /\ UNCHANGED server
    \/ \E t \in Tx, b \in BOOLEAN : fetch_all(c, t, b) /\ UNCHANGED server
    \/ \E ok \in BOOLEAN : fetch_all_done(c, ok) /\ UNCHANGED server
    \/ \E t \in Tx, b \in BOOLEAN : stream_data(c, t, b) /\ UNCHANGED server
    \/ \E rows \in Cursors(MaxItems), n \in 0..MaxItems :
          stream_data_done(c, rows, n) /\ UNCHANGED server
    \/ \E t \in Tx : bulk_change(c, t) /\ UNCHANGED server
    \/ /\ call[c].pc = "bulk_change"
       /\ \E ps \in SeqsUpTo(ParamSets({1}), MaxItems), bs \in 0..MaxItems, ok \in BOOLEAN :
             bulk_change_done(c, ps, bs, ok)
       /\ UNCHANGED server
    \/ \E t \in Tx : commit(c, t) /\ UNCHANGED server
    \/ \E ok \in BOOLEAN : commit_done(c, ok) /\ UNCHANGED server
    \/ \E t \in Tx : rollback(c, t) /\ UNCHANGED server
    \/ \E ok \in BOOLEAN : rollback_done(c, ok) /\ UNCHANGED server

\* Concurrent callers sharing the Transactions.
Next ==
    \/ PoolFlip
    \/ \E c \in Callers : Calls(c)

Spec == Init /\ [][Next]_vars

\* One caller: every operation runs from its call to its return before
\* the next one starts.
NextSeq ==
    \/ PoolFlip
    \/ Calls(1)

SpecSeq == Init /\ [][NextSeq]_vars

\* One caller running bulk_change on one Transaction, over every list of
\* at most BulkItems parameter sets and every batch_size up to MaxBatch.
NextBulk ==
    \/ transaction(1, 1) /\ UNCHANGED server
    \/ bulk_change(1, 1) /\ UNCHANGED server
    \/ /\ call[1].pc = "bulk_change"
       /\ \E ps \in SeqsUpTo(ParamSets(1..MaxRowsAffected), BulkItems), bs \in 0..MaxBatch, ok \in BOOLEAN :
             bulk_change_done(1, ps, bs, ok)
       /\ UNCHANGED server

SpecBulk == Init /\ [][NextBulk]_vars

\* One caller running stream_data on its Transactions, over every cursor
\* of at most MaxRows rows and every chunk_size up to MaxChunk.
NextStream ==
    \/ \E t \in Tx : transaction(1, t) /\ UNCHANGED server
    \/ \E t \in Tx, b \in BOOLEAN : stream_data(1, t, b) /\ UNCHANGED server
    \/ \E rows \in Cursors(MaxRows), n \in 0..MaxChunk :
          stream_data_done(1, rows, n) /\ UNCHANGED server

SpecStream == Init /\ [][NextStream]_vars

\* -------------------------------------------------------- the registry
\* The database's part of the state, but for what was returned last.
database == <<driver, reachable, txs, handle, dirty, mutex, hstate, call>>

\* SQL_SESSION_MAPPING.insert(session_id, database)
insert_sql_session(m, k, t) == [m EXCEPT ![k] = t]

\* A removal that empties the whole map.
remove_sql_session_clearing(m, k) == [j \in Keys |-> None]

\* SQL_SESSION_MAPPING.remove(session_id)
remove_sql_session(m, k) == [m EXCEPT ![k] = None]

\* A lookup that hands out a Transaction of its own, not the stored one.
get_session_database_of_another(m, k) ==
    IF m[k] = None THEN None ELSE CHOOSE t \in Tx : t # m[k]

\* mapping.get(session_id).map(|x| x.value().clone()): the clone shares
\* the Arc<Mutex<..>> of the stored DatabaseTransaction, so it is that
\* Transaction.
get_session_database(m, k) == m[k]

RegistryResult(op, k, t) ==
    Result(op, t, "Ok", None, None, FALSE, FALSE, 0, [k |-> k])

\* insert_sql_session called with any id and any Transaction.
reg_insert(c, k, t) ==
    /\ registry' = insert_sql_session(registry, k, t)
    /\ ret' = [RegistryResult("insert", k, t) EXCEPT !.c = c]
    /\ UNCHANGED <<database, connection, req>>

\* remove_sql_session called with any id.
reg_remove(c, k) ==
    /\ registry' = remove_sql_session(registry, k)
    /\ ret' = [RegistryResult("remove", k, None) EXCEPT !.c = c]
    /\ UNCHANGED <<database, connection, req>>

\* Python code of caller c (a request's handler, or code outside any
\* request) calls get_session_database(k) and keeps what it gets.
py_get(c, k) ==
    /\ connection \in {"set", "absent"}
    /\ req[c].pc \in {"new", "handler"}
    /\ call[c].pc = "idle"
    /\ req' = [req EXCEPT ![c].held = get_session_database(registry, k), ![c].key = k]
    /\ ret' = [RegistryResult("get", k, get_session_database(registry, k)) EXCEPT !.c = c]
    /\ UNCHANGED <<database, connection, registry>>

\* The Python code lets go of the Transaction it got.
py_release(c) ==
    /\ req[c].pc \in {"new", "handler"}
    /\ call[c].pc = "idle"
    /\ req[c].held # None
    /\ req' = [req EXCEPT ![c].held = None, ![c].key = 0]
    /\ UNCHANGED <<database, ret, connection, registry>>

\* The Python code works on the Transaction it holds: it commits it, or
\* streams from it.
py_call(c) ==
    /\ req[c].pc \in {"new", "handler"}
    /\ req[c].held # None
    /\ \/ commit(c, req[c].held)
       \/ \E ok \in BOOLEAN : commit_done(c, ok)
       \/ stream_data(c, req[c].held, TRUE)
       \/ \E rows \in Cursors(MaxItems), n \in 1..1 : stream_data_done(c, rows, n)
    /\ UNCHANGED server

\* A discard that forgets the native transaction without ending it.
drop_transaction_leaking(t) ==
    /\ t \in txs
    /\ handle[t] # None
    /\ \A k \in Keys : registry[k] # t
    /\ \A c \in Callers : req[c].held # t /\ call[c].t # t
    /\ handle' = [handle EXCEPT ![t] = None]
    /\ UNCHANGED <<driver, reachable, txs, dirty, mutex, hstate, call, ret, server>>

\* The last clone of a DatabaseTransaction is gone (no registry entry, no
\* Python reference, no call in flight): the Arc is freed, and dropping
\* the native transaction in its slot rolls it back and frees its
\* connection.
drop_transaction(t) ==
    /\ t \in txs
    /\ handle[t] # None
    /\ \A k \in Keys : registry[k] # t
    /\ \A c \in Callers : req[c].held # t /\ call[c].t # t
    /\ hstate' = [hstate EXCEPT ![handle[t]] = "rolledback"]
    /\ handle' = [handle EXCEPT ![t] = None]
    /\ UNCHANGED <<driver, reachable, txs, dirty, mutex, call, ret, server>>

\* ---------------------------------------------------------- the server
\* DatabaseConfig::create_*_pool: self.url.parse()? and connect_with(..).
create_pool(parses, connects) ==
    IF ~parses THEN "ParseError" ELSE IF ~connects THEN "ConnectError" ELSE "Pool"

\* DatabaseConnection::new: create_*_pool().await.unwrap().
DatabaseConnection_new(parses, connects) ==
    IF create_pool(parses, connects) = "Pool" THEN "Ok" ELSE "Panic"

\* Server start: match database_config { Some(config) =>
\* set_sql_connect(DatabaseConnection::new(config).await), None => {} }.
server_start(hasConfig, parses) ==
    /\ connection = "starting"
    /\ IF ~hasConfig
       THEN /\ connection' = "absent"
            /\ ret' = ret
       ELSE LET res == DatabaseConnection_new(parses, reachable)
            IN  /\ connection' = IF res = "Ok" THEN "set" ELSE "panicked"
                /\ ret' = Result("new", 0, res, None, None, FALSE, FALSE, 0,
                                 [pool |-> create_pool(parses, reachable)])
    /\ UNCHANGED <<database, registry, req>>

\* execute_request up to the middlewares: get_sql_connect(), and with a
\* pool insert_sql_session(context_id, database.transaction().await).
req_start(r) ==
    /\ req[r].pc = "new"
    /\ req[r].held = None
    /\ call[r].pc = "idle"
    /\ IF connection = "absent"
       THEN /\ req' = [req EXCEPT ![r].pc = "before"]
            /\ UNCHANGED <<database, ret, registry>>
       ELSE /\ connection = "set"
            /\ \E t \in Tx :
                  /\ transaction(r, t)
                  /\ IF PoolBegins(InUse)
                     THEN /\ registry' = insert_sql_session(registry, r, t)
                          /\ req' = [req EXCEPT ![r].pc = "before", ![r].tx = t]
                     ELSE /\ registry' = registry
                          /\ req' = [req EXCEPT ![r].pc = "aborted", ![r].out = "panic"]
    /\ UNCHANGED connection

\* The before middlewares: every one hands the request on, or one returns
\* a response, or one fails; the last two return from execute_request.
req_before(r, outcome) ==
    /\ req[r].pc = "before"
    /\ req' = [req EXCEPT ![r].pc = IF outcome = "Request" THEN "handler" ELSE "done",
                          ![r].out = CASE outcome = "Request" -> "none"
                                       [] outcome = "Response" -> "before_response"
                                       [] outcome = "Err" -> "before_error"]
    /\ UNCHANGED <<database, ret, connection, registry>>

\* execute_http_function(..).await.unwrap(), then
\* response.context_id = request.context_id.
req_handler(r, ok) ==
    /\ req[r].pc = "handler"
    /\ call[r].pc = "idle"
    /\ req' = [req EXCEPT ![r].pc = IF ok THEN "after" ELSE "aborted",
                          ![r].out = IF ok THEN "none" ELSE "panic",
                          ![r].ctx = IF ok THEN r ELSE 0,
                          ![r].held = None, ![r].key = 0]
    /\ UNCHANGED <<database, ret, connection, registry>>

\* The after middlewares: none, or each returns the response it was given
\* ("Response"), or one returns a response of its own making, whose
\* context id is empty ("NewResponse"), or one returns a request, or one
\* fails; the last two return from execute_request.
req_after(r, outcome) ==
    /\ req[r].pc = "after"
    /\ req' = [req EXCEPT ![r].pc = IF outcome \in {"Response", "NewResponse"}
                                    THEN "cleanup" ELSE "done",
                          ![r].ctx = IF outcome = "NewResponse" THEN 0 ELSE @,
                          ![r].out = CASE outcome = "Request" -> "after_request"
                                       [] outcome = "Err" -> "after_error"
                                       [] OTHER -> "none"]
    /\ UNCHANGED <<database, ret, connection, registry>>

\* if !database.is_none() { let tx = get_session_database(context_id);
\* tx.unwrap().commit_internal().await; .. }: up to the backend commit.
\* `database` is what get_sql_connect() gave when the request started: it
\* was Some exactly when the request began a transaction.
req_cleanup(r) ==
    /\ req[r].pc = "cleanup"
    /\ IF req[r].tx = None
       THEN /\ req' = [req EXCEPT ![r].pc = "done", ![r].out = "response"]
            /\ UNCHANGED <<database, ret>>
       ELSE IF get_session_database(registry, req[r].ctx) = None
       THEN /\ req' = [req EXCEPT ![r].pc = "aborted", ![r].out = "panic"]
            /\ UNCHANGED <<database, ret>>
       ELSE /\ commit(r, get_session_database(registry, req[r].ctx))
            /\ req' = [req EXCEPT ![r].pc = "committing"]
    /\ UNCHANGED <<connection, registry>>

\* commit_internal returns; remove_sql_session(context_id); the response
\* goes out.
req_cleaned(r, backendOk) ==
    /\ req[r].pc = "committing"
    /\ commit_done(r, backendOk)
    /\ registry' = remove_sql_session(registry, req[r].ctx)
    /\ req' = [req EXCEPT ![r].pc = "done", ![r].out = "response"]
    /\ UNCHANGED connection

\* The server: it starts, with or without a database, and serves
\* requests concurrently, whose Python code uses the registry.
NextServer ==
    \/ \E hasConfig \in BOOLEAN, parses \in BOOLEAN : server_start(hasConfig, parses)
    \/ PoolFlip
    \/ \E r \in Callers : req_start(r)
    \/ \E r \in Callers, o \in {"Request", "Response", "Err"} : req_before(r, o)
    \/ \E r \in Callers, ok \in BOOLEAN : req_handler(r, ok)
    \/ \E r \in Callers, o \in {"Response", "NewResponse", "Request", "Err"} : req_after(r, o)
    \/ \E r \in Callers : req_cleanup(r)
    \/ \E r \in Callers, ok \in BOOLEAN : req_cleaned(r, ok)
    \/ \E c \in Callers, k \in Keys : py_get(c, k)
    \/ \E c \in Callers : py_release(c)
    \/ \E c \in Callers : py_call(c)
    \/ \E t \in Tx : drop_transaction(t)

InitServer ==
    /\ connection = "starting"
    /\ registry = [k \in Keys |-> None]
    /\ req = [c \in Callers |-> NewReq]
    /\ driver \in Drivers
    /\ reachable = TRUE
    /\ txs = {}
    /\ handle = [t \in Tx |-> None]
    /\ dirty = [t \in Tx |-> FALSE]
    /\ mutex = [t \in Tx |-> Free]
    /\ hstate = [h \in HandleIds |-> "unused"]
    /\ call = [c \in Callers |-> Idle]
    /\ ret = NoRet

SpecServer == InitServer /\ [][NextServer]_vars

\* ------------------------------------------------- the process-wide pool
\* static SQL_DATABASE_CONNECTION: OnceCell<DatabaseConnection>: empty
\* until set; the DatabaseConnection in it is the pool of one driver.
SQL_DATABASE_CONNECTION == [set |-> connection = "set", pool |-> driver]

\* A cell that takes every value it is given.
set_sql_connect_overwriting(cell, conn) == [set |-> TRUE, pool |-> conn]

\* let _ = SQL_DATABASE_CONNECTION.set(connection): OnceCell::set stores
\* the value in an empty cell and gives it back as Err from a full one,
\* which is thrown away.
set_sql_connect(cell, conn) == IF cell.set THEN cell ELSE [set |-> TRUE, pool |-> conn]

\* SQL_DATABASE_CONNECTION.get()
get_sql_connect(cell) == IF cell.set THEN cell.pool ELSE "None"

\* set_sql_connect is called once more in the running process, with the
\* DatabaseConnection of any driver.
set_again(conn) ==
    /\ connection \in {"set", "absent"}
    /\ LET cell == set_sql_connect(SQL_DATABASE_CONNECTION, conn)
       IN  /\ connection' = "set"
           /\ driver' = cell.pool
           /\ ret' = Result("set_sql_connect", 0, "Ok", None, None, FALSE, FALSE, 0,
                            [given |-> conn,
                             before |-> get_sql_connect(SQL_DATABASE_CONNECTION),
                             after |-> get_sql_connect(cell)])
    /\ UNCHANGED <<reachable, txs, handle, dirty, mutex, hstate, call, registry, req>>

\* The server starts, set_sql_connect may be called again at any time, and
\* requests go through execute_request.
NextCell ==
    \/ \E hasConfig \in BOOLEAN, parses \in BOOLEAN : server_start(hasConfig, parses)
    \/ \E conn \in Drivers : set_again(conn)
    \/ \E r \in Callers : req_start(r)
    \/ \E r \in Callers, o \in {"Request", "Response", "Err"} : req_before(r, o)
    \/ \E r \in Callers, ok \in BOOLEAN : req_handler(r, ok)
    \/ \E r \in Callers, o \in {"Response", "NewResponse", "Request", "Err"} : req_after(r, o)
    \/ \E r \in Callers : req_cleanup(r)
    \/ \E r \in Callers, ok \in BOOLEAN : req_cleaned(r, ok)

SpecCell == InitServer /\ [][NextCell]_vars

\* The registry alone, under every insert, get and remove.
NextRegistry ==
    \/ \E c \in Callers, k \in Keys, t \in Tx : reg_insert(c, k, t)
    \/ \E c \in Callers, k \in Keys : reg_remove(c, k)
    \/ \E c \in Callers, k \in Keys : py_get(c, k)

SpecRegistry == Init /\ [][NextRegistry]_vars

\* ---------------------------------------------------------- the binders
\* The characters the query texts tried here are made of: the placeholder
\* sign, two digits, and a letter for everything else.
QueryChars == {"$", "0", "1", "a"}

\* \d
DigitOf(n) ==
    CASE n = 0 -> "0" [] n = 1 -> "1" [] n = 2 -> "2" [] n = 3 -> "3" [] n = 4 -> "4"
      [] n = 5 -> "5" [] n = 6 -> "6" [] n = 7 -> "7" [] n = 8 -> "8" [] n = 9 -> "9"
Digits == {DigitOf(n) : n \in 0..9}
DigitValue(ch) == CHOOSE n \in 0..9 : DigitOf(n) = ch
Queries(n) == UNION {[1..k -> QueryChars] : k \in 0..n}

\* The Python values a parameter can be, by type: None, str, an int that
\* fits 64 bits and one that does not, float, bool, datetime.datetime,
\* datetime.date, datetime.time, dict, list, and any other object.
PyKinds == {"none", "str", "int", "bigint", "float", "bool",
            "datetime", "date", "time", "dict", "list", "object"}

\* params: each value with its place in the input.
Tagged(params) == [i \in 1..Len(params) |-> [pos |-> i, py |-> params[i]]]

\* The index of the last digit of the run of digits that starts at i.
RECURSIVE DigitRun(_, _)
DigitRun(q, i) == IF i < Len(q) /\ q[i + 1] \in Digits THEN DigitRun(q, i + 1) ELSE i

\* Regex::new(r"\$(\d+)").find_iter(query): the matches from position i
\* on, leftmost first, each as long as the digits go, none overlapping.
RECURSIVE find_iter(_, _)
find_iter(q, i) ==
    IF i > Len(q) THEN <<>>
    ELSE IF q[i] = "$" /\ i < Len(q) /\ q[i + 1] \in Digits
         THEN <<SubSeq(q, i, DigitRun(q, i + 1))>> \o find_iter(q, DigitRun(q, i + 1) + 1)
         ELSE find_iter(q, i + 1)

\* str::replace(from, to): every non-overlapping occurrence of from, left
\* to right.
RECURSIVE replace(_, _, _)
replace(str, from, to) ==
    IF Len(str) < Len(from) THEN str
    ELSE IF SubSeq(str, 1, Len(from)) = from
         THEN to \o replace(SubSeq(str, Len(from) + 1, Len(str)), from, to)
         ELSE <<Head(str)>> \o replace(Tail(str), from, to)

\* p[1..].parse::<usize>() on a run of digits.
RECURSIVE parse_usize(_)
parse_usize(ds) ==
    IF ds = <<>> THEN 0
    ELSE parse_usize(SubSeq(ds, 1, Len(ds) - 1)) * 10 + DigitValue(ds[Len(ds)])

\* for p in params_extracted { converted_query = converted_query.replace(&p, "?");
\* param_values.push(params[index - 1]) }: index 0 and an index beyond
\* params panic (index - 1, params[..]).
RECURSIVE convert_loop(_, _, _, _)
convert_loop(params_extracted, params, converted_query, param_values) ==
    IF params_extracted = <<>>
    THEN [res |-> "Ok", query |-> converted_query, values |-> param_values]
    ELSE LET p == Head(params_extracted)
             index == parse_usize(Tail(p))
         IN  IF index = 0 \/ index > Len(params)
             THEN [res |-> "Panic", query |-> <<>>, values |-> <<>>]
             ELSE convert_loop(Tail(params_extracted), params,
                               replace(converted_query, p, <<"?">>),
                               Append(param_values, params[index]))

\* SqliteParameterBinder::convert_sql_params
convert_sql_params(query, params) ==
    convert_loop(find_iter(query, 1), params, query, <<>>)

\* What pyo3's extract::<T>() accepts: String a str; i64 an int that fits
\* and a bool (a bool is an int); f64 a float and every int; bool a bool.
extract(T, py) ==
    CASE T = "String" -> py = "str"
      [] T = "i64" -> py \in {"int", "bool"}
      [] T = "f64" -> py \in {"float", "int", "bigint", "bool"}
      [] T = "bool" -> py = "bool"

\* is_instance_of::<T>(): the value's type is T or a subclass of it; bool
\* is a subclass of int, datetime of date.
is_instance_of(T, py) ==
    CASE T = "PyString" -> py = "str"
      [] T = "PyInt" -> py \in {"int", "bigint", "bool"}
      [] T = "PyFloat" -> py = "float"
      [] T = "PyBool" -> py = "bool"
      [] T = "PyDateTime" -> py = "datetime"
      [] T = "PyDate" -> py \in {"date", "datetime"}
      [] T = "PyTime" -> py = "time"
      [] T = "PyDict" -> py = "dict"
      [] T = "PyList" -> py = "list"

\* The match of PostgresParameterBinder::bind_parameters on one parameter:
\* the Rust type it is bound as, "Err" where the `?` of an extract
\* returns, "Unsupported" for the fallback arm.
Postgres_bind(py) ==
    IF py = "none" THEN "Null"
    ELSE IF is_instance_of("PyString", py) THEN (IF extract("String", py) THEN "String" ELSE "Err")
    ELSE IF is_instance_of("PyInt", py) THEN (IF extract("i64", py) THEN "i64" ELSE "Err")
    ELSE IF is_instance_of("PyFloat", py) THEN (IF extract("f64", py) THEN "f64" ELSE "Err")
    ELSE IF is_instance_of("PyBool", py) THEN (IF extract("bool", py) THEN "bool" ELSE "Err")
    ELSE IF is_instance_of("PyDateTime", py) THEN "NaiveDateTime"
    ELSE IF is_instance_of("PyDate", py) THEN "NaiveDate"
    ELSE IF is_instance_of("PyTime", py) THEN "NaiveTime"
    ELSE IF is_instance_of("PyDict", py) THEN "Json"
    ELSE IF is_instance_of("PyList", py) THEN "Json"
    ELSE "Unsupported"

\* A chain of probes that asks for a double before it asks for an integer.
MySql_bind_double_first(py) ==
    IF extract("String", py) THEN "String"
    ELSE IF extract("f64", py) THEN "f64"
    ELSE IF extract("i64", py) THEN "i64"
    ELSE IF extract("bool", py) THEN "bool"
    ELSE "Unsupported"

\* The nested matches of MySqlParameterBinder::bind_parameters.
MySql_bind(py) ==
    IF extract("String", py) THEN "String"
    ELSE IF extract("i64", py) THEN "i64"
    ELSE IF extract("f64", py) THEN "f64"
    ELSE IF extract("bool", py) THEN "bool"
    ELSE "Unsupported"

\* The if-let chain of SqliteParameterBinder::bind_parameters.
Sqlite_bind(py) ==
    IF extract("String", py) THEN "String"
    ELSE IF extract("i64", py) THEN "i64"
    ELSE IF extract("f64", py) THEN "f64"
    ELSE IF extract("bool", py) THEN "bool"
    ELSE "Unsupported"

bind_one(drv, py) ==
    CASE drv = "Postgres" -> Postgres_bind(py)
      [] drv = "MySql" -> MySql_bind(py)
      [] drv = "Sqlite" -> Sqlite_bind(py)

\* for param in params { query = query.bind(..) }: the values bound so
\* far, each with the Rust type it is bound as; the first parameter that
\* cannot be bound returns the error and nothing is bound.
RECURSIVE bind_loop(_, _, _)
bind_loop(drv, params, bound) ==
    IF params = <<>> THEN [res |-> "Ok", bound |-> bound]
    ELSE LET T == bind_one(drv, Head(params).py)
         IN  IF T = "Unsupported" THEN [res |-> "UnsupportedParameterType", bound |-> <<>>]
             ELSE IF T = "Err" THEN [res |-> "ExtractError", bound |-> <<>>]
             ELSE bind_loop(drv, Tail(params),
                            Append(bound, [T |-> T, pos |-> Head(params).pos, py |-> Head(params).py]))

\* bind_parameters of the three binders: Postgres and MySQL hand the query
\* text to sqlx as it is and bind params in order; SQLite first converts
\* (convert_sql_params(..).unwrap()) and binds what the conversion gave.
bind_parameters(drv, query, params) ==
    IF drv = "Sqlite"
    THEN LET conv == convert_sql_params(query, Tagged(params))
         IN  IF conv.res # "Ok" THEN [res |-> conv.res, query |-> <<>>, bound |-> <<>>]
             ELSE [res |-> bind_loop(drv, conv.values, <<>>).res,
                   query |-> IF bind_loop(drv, conv.values, <<>>).res = "Ok"
                             THEN conv.query ELSE <<>>,
                   bound |-> bind_loop(drv, conv.values, <<>>).bound]
    ELSE [res |-> bind_loop(drv, Tagged(params), <<>>).res,
          query |-> IF bind_loop(drv, Tagged(params), <<>>).res = "Ok" THEN query ELSE <<>>,
          bound |-> bind_loop(drv, Tagged(params), <<>>).bound]

\* A caller has a query bound: what comes back is the statement (its text
\* and its bound values) or the error.
bind(query, params) ==
    /\ ret = NoRet
    /\ ret' = Result("bind_parameters", None, bind_parameters(driver, query, params).res,
                     None, None, FALSE, FALSE, 0,
                     [query |-> query, params |-> params,
                      converted |-> bind_parameters(driver, query, params).query,
                      bound |-> bind_parameters(driver, query, params).bound])
    /\ UNCHANGED <<database, server>>

\* The text "$1$2..$n" (n at most 9 here).
RECURSIVE QueryFor(_)
QueryFor(n) == IF n = 0 THEN <<>> ELSE QueryFor(n - 1) \o <<"$", DigitOf(n)>>

\* ------------------------------------------------------------ decoding
\* What a column of a result row holds, as far as decoding goes: SQL NULL,
\* a value of one of these families of SQL types, or a value ("bad") that
\* the driver fails to decode as anything.  "err" is a column that cannot
\* be read at all: try_get_raw fails only for an index that is no column,
\* and the loops below take their indexes from row.columns().
Families == {"integer", "text", "float", "boolean", "timestamp", "date", "time",
             "json", "text_array", "int_array", "other"}

ColumnNames == {"a", "b"}

Columns ==
    [name : ColumnNames, raw : {"null", "bad"}, family : {"other"}]
        \cup [name : ColumnNames, raw : {"val"}, family : Families]

\* The family of SQL types a Rust type decodes from.
FamilyOf(T) ==
    CASE T \in {"i32", "i64"} -> "integer"
      [] T = "String" -> "text"
      [] T = "f64" -> "float"
      [] T = "bool" -> "boolean"
      [] T = "NaiveDateTime" -> "timestamp"
      [] T = "NaiveDate" -> "date"
      [] T = "NaiveTime" -> "time"
      [] T = "Json" -> "json"
      [] T = "Vec<String>" -> "text_array"
      [] T = "Vec<i32>" -> "int_array"

\* row.try_get::<T, _>(i) is Ok: the column holds a value the driver
\* decodes as T.  A mismatch of types and a failed decoding are both Err,
\* and the `if let Ok(..)` chains do not tell them apart.
try_get(T, col) == col.raw = "val" /\ FamilyOf(T) = col.family

\* The Python value dict.set_item is given for a value decoded as T; the
\* JSON arm sets the serialized text.
PyOf(T) ==
    CASE T \in {"i32", "i64"} -> "int"
      [] T \in {"String", "Json"} -> "str"
      [] T = "f64" -> "float"
      [] T = "bool" -> "bool"
      [] T = "NaiveDateTime" -> "datetime"
      [] T = "NaiveDate" -> "date"
      [] T = "NaiveTime" -> "time"
      [] T \in {"Vec<String>", "Vec<i32>"} -> "list"

\* The if-let chain of each bind_result, in its order.
Probes(drv) ==
    CASE drv = "Postgres" -> <<"i32", "i64", "String", "f64", "bool", "NaiveDateTime",
                               "NaiveDate", "NaiveTime", "Json", "Vec<String>", "Vec<i32>">>
      [] drv = "MySql" -> <<"i32", "String", "f64", "bool">>
      [] drv = "Sqlite" -> <<"i32", "f64", "bool", "String">>

\* The first probe of the chain that succeeds on col, "none" if none does.
RECURSIVE FirstProbe(_, _)
FirstProbe(probes, col) ==
    IF probes = <<>> THEN "none"
    ELSE IF try_get(Head(probes), col) THEN Head(probes)
    ELSE FirstProbe(Tail(probes), col)

\* PostgresParameterBinder::bind_result on one column: what is done with
\* the dict ("set" a value, "skip", or return "err") and the value set.
Postgres_column(col) ==
    IF col.raw = "err" THEN [act |-> "set", py |-> "none"]
    ELSE IF col.raw = "null" THEN [act |-> "set", py |-> "none"]
    ELSE IF FirstProbe(Probes("Postgres"), col) # "none"
         THEN [act |-> "set", py |-> PyOf(FirstProbe(Probes("Postgres"), col))]
    ELSE [act |-> "set", py |-> "none"]

\* MySqlParameterBinder::bind_result on one column: the chain has no
\* final else, so a value no probe decodes sets nothing.
MySql_column(col) ==
    IF col.raw = "err" THEN [act |-> "set", py |-> "none"]
    ELSE IF col.raw = "null" THEN [act |-> "set", py |-> "none"]
    ELSE IF FirstProbe(Probes("MySql"), col) # "none"
         THEN [act |-> "set", py |-> PyOf(FirstProbe(Probes("MySql"), col))]
    ELSE [act |-> "skip", py |-> "none"]

\* SqliteParameterBinder::bind_result on one column: a column that cannot
\* be read and a value no probe decodes both return Err.
Sqlite_column(col) ==
    IF col.raw = "err" THEN [act |-> "err", py |-> "none"]
    ELSE IF col.raw = "null" THEN [act |-> "set", py |-> "none"]
    ELSE IF FirstProbe(Probes("Sqlite"), col) # "none"
         THEN [act |-> "set", py |-> PyOf(FirstProbe(Probes("Sqlite"), col))]
    ELSE [act |-> "err", py |-> "none"]

\* A set_item that leaves a key the dict already has as it is.
set_item_first_wins(dict, name, py, col) ==
    IF \E j \in 1..Len(dict) : dict[j].name = name
    THEN dict
    ELSE Append(dict, [name |-> name, py |-> py, col |-> col])

\* PyDict::set_item: a key the dict has keeps its place and gets the new
\* value, a new key goes to the end.  `col` is the column the value is of.
set_item(dict, name, py, col) ==
    IF \E j \in 1..Len(dict) : dict[j].name = name
    THEN [j \in 1..Len(dict) |->
             IF dict[j].name = name THEN [name |-> name, py |-> py, col |-> col] ELSE dict[j]]
    ELSE Append(dict, [name |-> name, py |-> py, col |-> col])

\* for (i, column) in row.columns().iter().enumerate() { .. } Ok(dict)
RECURSIVE bind_result_loop(_, _, _, _)
bind_result_loop(drv, row, i, dict) ==
    IF i > Len(row) THEN [res |-> "Ok", dict |-> dict]
    ELSE LET d == CASE drv = "Postgres" -> Postgres_column(row[i])
                    [] drv = "MySql" -> MySql_column(row[i])
                    [] drv = "Sqlite" -> Sqlite_column(row[i])
         IN  IF d.act = "err" THEN [res |-> "Err", dict |-> <<>>]
             ELSE IF d.act = "skip" THEN bind_result_loop(drv, row, i + 1, dict)
             ELSE bind_result_loop(drv, row, i + 1, set_item(dict, row[i].name, d.py, i))

bind_result(drv, row) == bind_result_loop(drv, row, 1, <<>>)

\* A row is decoded: what comes back is the dict or the error.
decode(row) ==
    /\ ret = NoRet
    /\ ret' = Result("bind_result", None, bind_result(driver, row).res,
                     None, None, FALSE, FALSE, 0,
                     [row |-> row, dict |-> bind_result(driver, row).dict])
    /\ UNCHANGED <<database, server>>

\* What the driver yields for a query, item by item: a row (here of one
\* column), or an error in place of a row.
Items ==
    {[err |-> TRUE, row |-> <<>>]}
        \cup {[err |-> FALSE, row |-> <<col>>] : col \in {x \in Columns : x.name = "a"}}

\* fetch_all: query.fetch_all(..).await.map_err(..)? is the Err of the
\* first failing item; then rows.iter().map(bind_result).collect()? is
\* the Err of the first row bind_result rejects, else every dict.
fetch_all_rows(drv, fetched) ==
    IF \E i \in 1..Len(fetched) : fetched[i].err
    THEN [res |-> "QueryError", rows |-> <<>>]
    ELSE IF \E i \in 1..Len(fetched) : bind_result(drv, fetched[i].row).res # "Ok"
    THEN [res |-> "QueryError", rows |-> <<>>]
    ELSE [res |-> "Ok",
          rows |-> [i \in 1..Len(fetched) |-> bind_result(drv, fetched[i].row).dict]]

\* stream_data: match row_result { Ok(row) => bind_result(py, &row)?, Err(e)
\* => return Err(..) } inside the loop that fills the chunks.
stream_data_rows(drv, fetched, chunk_size) ==
    LET cursor == [i \in 1..Len(fetched) |->
                      [id |-> i,
                       kind |-> IF fetched[i].err THEN "err"
                                ELSE IF bind_result(drv, fetched[i].row).res # "Ok" THEN "bad"
                                ELSE "ok"]]
        out == stream_loop(cursor, chunk_size, <<>>, <<>>)
    IN  [res |-> out.res,
         rows |-> [j \in 1..Len(out.chunks) |->
                      [k \in 1..Len(out.chunks[j]) |->
                          bind_result(drv, fetched[out.chunks[j][k]].row).dict]]]

\* A fetch_all reads what the driver yields.
read_fetch_all(fetched) ==
    /\ ret = NoRet
    /\ ret' = Result("fetch_all_rows", None, fetch_all_rows(driver, fetched).res,
                     None, None, FALSE, FALSE, 1,
                     [fetched |-> fetched, rows |-> <<fetch_all_rows(driver, fetched).rows>>])
    /\ UNCHANGED <<database, server>>

\* A stream_data reads what the driver yields.
read_stream_data(fetched, chunk_size) ==
    /\ ret = NoRet
    /\ ret' = Result("stream_data_rows", None, stream_data_rows(driver, fetched, chunk_size).res,
                     None, None, FALSE, FALSE, 1,
                     [fetched |-> fetched,
                      rows |-> stream_data_rows(driver, fetched, chunk_size).rows])
    /\ UNCHANGED <<database, server>>

\* The column a single-column echo query (SELECT $1) gives back for a
\* value bound as T: NULL for a null, else a value of the family of SQL
\* types T is stored as.
EchoColumn(T) ==
    IF T = "Null" THEN [name |-> "a", raw |-> "null", family |-> "other"]
    ELSE [name |-> "a", raw |-> "val", family |-> FamilyOf(T)]

\* bind_parameters, the echo query, bind_result: the Python value that
\* comes back for py ("missing" when the dict has no entry).
roundtrip(drv, py) ==
    LET b == bind_parameters(drv, QueryFor(1), <<py>>)
    IN  IF b.res # "Ok" THEN [res |-> b.res, T |-> "none", out |-> "none"]
        ELSE LET d == bind_result(drv, <<EchoColumn(b.bound[1].T)>>)
             IN  [res |-> IF d.res = "Ok" THEN "Ok" ELSE "QueryError",
                  T |-> b.bound[1].T,
                  out |-> IF d.res # "Ok" THEN "none"
                          ELSE IF d.dict = <<>> THEN "missing" ELSE d.dict[1].py]

\* A value is bound, echoed by the backend and decoded.
echo(py) ==
    /\ ret = NoRet
    /\ ret' = Result("echo", None, roundtrip(driver, py).res, None, None, FALSE, FALSE, 1,
                     [py |-> py, T |-> roundtrip(driver, py).T, out |-> roundtrip(driver, py).out])
    /\ UNCHANGED <<database, server>>

\* The binders alone, each applied once to an input: every query text of up to MaxQuery characters with
\* NumParams integers, and every list of up to MaxParams Python values
\* with a query that names each of them once; every result row of up to
\* MaxCols columns; every result of up to MaxFetch items.
NextBinder ==
    \/ \E query \in Queries(MaxQuery) : bind(query, [i \in 1..NumParams |-> "int"])
    \/ \E params \in SeqsUpTo(PyKinds, MaxParams) : bind(QueryFor(Len(params)), params)
    \/ \E row \in SeqsUpTo(Columns, MaxCols) : decode(row)
    \/ \E py \in PyKinds : echo(py)
    \/ \E fetched \in SeqsUpTo(Items, MaxFetch) : read_fetch_all(fetched)
    \/ \E fetched \in SeqsUpTo(Items, MaxFetch), n \in 1..MaxFetch : read_stream_data(fetched, n)

SpecBinder == Init /\ [][NextBinder]_vars

\* ------------------------------------------------------- pool options
\* The DatabaseConfig values tried: the pool sizes and idle_timeout.
Configs ==
    [max_connections : 1..MaxPoolSize, min_connections : 0..1, idle_timeout : 0..MaxIdleTimeout]

\* PoolOptions::new(): the options of a pool nobody has configured, in
\* seconds: 10 connections at most, none kept, 30 s to acquire one, 10
\* minutes idle.
PoolOptions_new ==
    [max_connections |-> 10, min_connections |-> 0, acquire_timeout |-> 30, idle_timeout |-> 600]

\* PgPoolOptions::new().max_connections(..).min_connections(..)
\*     .idle_timeout(Some(from_secs(idle_timeout))).acquire_timeout(from_secs(idle_timeout))
create_postgres_pool(config) ==
    [PoolOptions_new EXCEPT !.max_connections = config.max_connections,
                            !.min_connections = config.min_connections,
                            !.idle_timeout = config.idle_timeout,
                            !.acquire_timeout = config.idle_timeout]

\* MySqlPoolOptions: the same four settings.
create_mysql_pool(config) ==
    [PoolOptions_new EXCEPT !.max_connections = config.max_connections,
                            !.min_connections = config.min_connections,
                            !.idle_timeout = config.idle_timeout,
                            !.acquire_timeout = config.idle_timeout]

\* SqlitePoolOptions: max_connections, min_connections and idle_timeout;
\* acquire_timeout is not called.
create_sqlite_pool(config) ==
    [PoolOptions_new EXCEPT !.max_connections = config.max_connections,
                            !.min_connections = config.min_connections,
                            !.idle_timeout = config.idle_timeout]

\* DatabaseConnection::new: match config.driver { .. }, up to the options
\* the pool is built with.
pool_options(drv, config) ==
    CASE drv = "Postgres" -> create_postgres_pool(config)
      [] drv = "MySql" -> create_mysql_pool(config)
      [] drv = "Sqlite" -> create_sqlite_pool(config)

\* The pool of the configured driver is built from config.
configure(config) ==
    /\ ret = NoRet
    /\ ret' = Result("create_pool", 0, "Ok", None, None, FALSE, FALSE, 0,
                     [config |-> config, options |-> pool_options(driver, config)])
    /\ UNCHANGED <<database, server>>

NextConfig == \E config \in Configs : configure(config)

SpecConfig == InitServer /\ [][NextConfig]_vars

\* =============================================================== claims
StatementOps == {"execute", "fetch_all", "stream_data", "bulk_change"}

\* No Transaction slot and no call in flight holds a native transaction
\* the backend has already finished.
NoFinishedHandleHeld ==
    /\ \A t \in Tx : handle[t] # None => hstate[handle[t]] = "open"
    /\ \A c \in Callers : call[c].h # None => hstate[call[c].h] = "open"

\* C1: execute only borrows the handle on every backend: when the slot held
\* a native transaction as execute reached it and execute returned
\* rows-affected or a QueryError, the slot holds that same transaction at
\* the return (the Transaction is still Active).
C1_ExecuteBorrows ==
    (ret.op = "execute" /\ ret.res \in {"Ok", "QueryError"} /\ ret.pre # None)
        => ret.post = ret.pre

C3_ExecuteAfterCommit ==
    [][(ret.op = "commit" /\ ret'.op = "execute" /\ ret'.t = ret.t)
          => ret'.res # "Panic"]_vars

\* C4: every statement operation that finds the slot empty returns the
\* NoActiveTransaction error, makes no driver call and leaves the
\* Transaction as it was.
C4_EmptyHandleIsAnError ==
    (ret.op \in StatementOps /\ ret.pre = None /\ ret.res # "BindError")
        => (ret.res = "NoActiveTransaction" /\ ret.ncalls = 0 /\ ret.post = None
            /\ ret.dpost = ret.dpre)

\* C5 as claimed: whenever stream_data has returned, with chunks or with any
\* error, the slot is empty.
C5_StreamAlwaysEmpties ==
    ret.op = "stream_data" => ret.post = None

\* A statement operation that found the slot empty did not succeed.
FailsOnEmpty ==
    (ret.op \in StatementOps /\ ret.pre = None)
        => ret.res \in {"Panic", "NoActiveTransaction", "BindError"}

\* C5 as amended: stream_data that got past the binder (it returned chunks
\* or a row error) leaves the slot empty, while a binder error leaves the
\* slot as it was; an operation on the empty slot does not succeed; and an
\* empty slot is filled again only by the renewal of a commit() or
\* rollback() on that Transaction (or by transaction() creating it).
C5_StreamIsTerminal ==
    [][/\ (ret'.op = "stream_data" /\ ret'.res \in {"Ok", "QueryError"}) => ret'.post = None
       /\ (ret'.op = "stream_data" /\ ret'.res = "BindError") => ret'.post = ret'.pre
       /\ FailsOnEmpty'
       /\ \A t \in Tx : (handle[t] = None /\ handle'[t] # None)
             => (ret'.op \in {"commit", "rollback", "transaction"} /\ ret'.t = t)]_vars

C5_Witness ==
    /\ ret.op = "execute" /\ ret.res = "Ok" /\ ret.pre > 1
    /\ hstate[1] = "rolledback" /\ hstate[ret.pre] = "open"

BulkRan == ret.op = "bulk_change" /\ ret.res \in {"Ok", "QueryError", "BindError"}

RECURSIVE SumRows(_)
SumRows(params) ==
    IF params = <<>> THEN 0 ELSE Head(params).rows + SumRows(Tail(params))

\* The first parameter set that fails, 0 when none does.
FirstFailing(params) ==
    IF \E i \in 1..Len(params) : params[i].kind # "ok"
    THEN CHOOSE i \in 1..Len(params) :
            /\ params[i].kind # "ok"
            /\ \A k \in 1..(i - 1) : params[k].kind = "ok"
    ELSE 0

Streamed == ret.op = "stream_data" /\ ret.res = "Ok"

RECURSIVE Flatten(_)
Flatten(ss) == IF ss = <<>> THEN <<>> ELSE Head(ss) \o Flatten(Tail(ss))

\* The chunks put together are the rows in cursor order, and no chunk is
\* empty.
ChunksAreTheRows ==
    /\ Flatten(ret.info.chunks) = [i \in 1..Len(ret.info.rows) |-> i]
    /\ \A k \in 1..Len(ret.info.chunks) : Len(ret.info.chunks[k]) >= 1

\* Every chunk has chunk_size rows, except that the last may have fewer.
ChunksAreFull ==
    \A k \in 1..Len(ret.info.chunks) :
        /\ Len(ret.info.chunks[k]) <= ret.info.chunk_size
        /\ k < Len(ret.info.chunks) => Len(ret.info.chunks[k]) = ret.info.chunk_size

\* C13 as claimed: for every row sequence and every chunk_size the chunks
\* returned are the rows in cursor order, none empty, each of at most
\* chunk_size rows and each but the last of exactly chunk_size.
C13_ChunksForEveryChunkSize ==
    Streamed => (ChunksAreTheRows /\ ChunksAreFull)

\* C13 as amended: the chunks returned are always the rows in cursor order
\* and none is empty; for chunk_size >= 1 each has at most chunk_size rows
\* and each but the last exactly chunk_size; for chunk_size = 0 every
\* chunk has one row.
C13_ChunksOfStream ==
    Streamed =>
        /\ ChunksAreTheRows
        /\ ret.info.chunk_size >= 1 => ChunksAreFull
        /\ ret.info.chunk_size = 0 =>
              \A k \in 1..Len(ret.info.chunks) : Len(ret.info.chunks[k]) = 1

C13_Witness ==
    /\ Streamed /\ Len(ret.info.rows) = 5 /\ ret.info.chunk_size = 2
    /\ ret.info.chunks = <<<<1, 2>>, <<3, 4>>, <<5>>>>

\* C14: a transaction() that returns while the backend answers and
\* max_connections native transactions are open (the acquire timeout has
\* elapsed without a slot freeing) returns the PoolExhausted error.
C14_ExhaustedPoolIsAnError ==
    [][(reachable /\ InUse >= MaxConnections /\ ret' # ret /\ ret'.op = "transaction")
          => ret'.res = "PoolExhausted"]_vars

\* The native transactions somebody holds: in a Transaction's slot, or in
\* the hands of a call in flight (a stream cursor, a statement, a finish).
HeldHandles ==
    ({handle[t] : t \in Tx} \cup {call[c].h : c \in Callers}) \ {None}

\* C15: the native transactions held at any moment, in slots and by calls
\* in flight together, are open ones and are at most max_connections.
C15_HandlesWithinPool ==
    /\ \A h \in HeldHandles : hstate[h] = "open"
    /\ Cardinality(HeldHandles) <= MaxConnections
    /\ InUse <= MaxConnections

C15_Witness ==
    /\ InUse = MaxConnections
    /\ \E c \in Callers :
          /\ call[c].pc = "stream_data" /\ handle[call[c].t] = None
          /\ hstate[call[c].h] = "open"
          /\ \E d \in Callers : d # c /\ call[d].pc = "idle" /\ ret.c = d /\ ret.res = "Panic"

\* The backend a DatabaseTransactionType variant and its struct belong to.
BackendOf(tag) ==
    CASE tag.variant = "Postgres" /\ tag.db = "PostgresDatabase" -> "Postgres"
      [] tag.variant = "MySql" /\ tag.db = "MySqlDatabase" -> "MySql"
      [] tag.variant = "SQLite" /\ tag.db = "SqliteDatabase" -> "Sqlite"
      [] OTHER -> "mixed"

\* C16: a Transaction that transaction() returns has a native transaction
\* in its slot, is not dirty, and carries the variant and backend struct
\* of the pool that made it.
C16_NewTransaction ==
    (ret.op = "transaction" /\ ret.res = "Ok") =>
        /\ ret.post # None
        /\ hstate[ret.post] # "unused"
        /\ ~ret.dpost
        /\ ret.t \in txs
        /\ BackendOf(ret.info) = driver

C16_Witness ==
    /\ ret.op = "transaction" /\ ret.res = "Ok" /\ driver = "Sqlite"
    /\ ret.info.variant = "SQLite" /\ handle[ret.t] = ret.post /\ ~dirty[ret.t]

\* C17: constructing the pool with a url that does not parse under the
\* driver's grammar returns ConfigError as a value: no pool is created
\* and the process does not abort.
C17_BadUrlIsConfigError ==
    (ret.op = "new" /\ ret.info.pool = "ParseError")
        => (ret.res = "ConfigError" /\ connection # "panicked")

\* The Transaction that was inserted under the id of request k.
InsertedFor(k) == IF k \in Callers THEN req[k].tx ELSE None

\* C18: get(id) after insert(id, tx) returns the Transaction that was
\* inserted, so every holder works on one guarded slot: when a commit (with
\* its renewal) or a withdrawal through one holder returns, every other
\* holder of that id, whoever obtained it and whenever, finds in its own
\* reference the handle the call left.
C18_HoldersShareTheSlot ==
    [][ /\ (ret' # ret /\ ret'.op = "get" /\ registry[ret'.info.k] # None)
            => /\ ret'.t = InsertedFor(ret'.info.k)
               /\ req'[ret'.c].held = InsertedFor(ret'.info.k)
        /\ (ret' # ret /\ ret'.op \in {"commit", "stream_data"})
            => \A d \in Callers :
                 (req'[d].held # None /\ InsertedFor(req'[d].key) = ret'.t)
                     => handle'[req'[d].held] = ret'.post ]_vars

\* Request 1's commit renewed the handle while the other request's code
\* still held the reference it got from the registry: it finds the new
\* handle there.
C18_Witness ==
    /\ ret.op = "commit" /\ ret.res = "Ok" /\ ret.c = 1
    /\ ret.post # None /\ ret.post # ret.pre
    /\ req[2].held = ret.t /\ req[2].key = 1
    /\ req[2].pc = "handler"
    /\ handle[req[2].held] = ret.post

\* C19: insert, get and remove on a key leave every other key as it
\* was; get changes nothing and returns what is stored; after insert(k, t)
\* the key holds t, after remove(k) it holds nothing, and removing an
\* absent key changes nothing.
C19_RegistryFrames ==
    [][ /\ ret' = ret => registry' = registry
        /\ ret' # ret =>
              LET k == ret'.info.k
              IN  /\ \A j \in Keys \ {k} :
                        get_session_database(registry', j) = get_session_database(registry, j)
                  /\ ret'.op = "insert" => get_session_database(registry', k) = ret'.t
                  /\ ret'.op = "remove" =>
                        /\ get_session_database(registry', k) = None
                        /\ registry[k] = None => registry' = registry
                  /\ ret'.op = "get" =>
                        /\ registry' = registry
                        /\ ret'.t = registry[k] ]_vars

\* A key was removed while another key holds a Transaction.
C19_Witness ==
    /\ ret.op = "remove"
    /\ registry[ret.info.k] = None
    /\ \E j \in Keys \ {ret.info.k} : registry[j] # None

\* C20: once execute_request is over for a request that inserted a
\* registry entry, on whichever exit path, the entry is gone.
C20_EntryRemovedOnEveryExit ==
    \A r \in Callers :
        (req[r].pc \in {"done", "aborted"} /\ req[r].tx # None)
            => get_session_database(registry, r) = None

\* Nothing refers to Transaction t any more: no registry entry, no Python
\* reference, no call.
Unreferenced(t) ==
    /\ t \in txs
    /\ \A k \in Keys : registry[k] # t
    /\ \A c \in Callers : req[c].held # t /\ call[c].t # t

InFlight(d, t) == call[d].pc # "idle" /\ call[d].t = t

\* C22: operations on one Transaction are serialized by its mutex: an
\* operation that got as far as the slot returns only while no other
\* caller is inside an operation on the same Transaction.
C22_OneCallAtATime ==
    [][ (/\ ret' # ret
         /\ ret'.op \in {"execute", "fetch_all", "stream_data", "bulk_change"}
         /\ ret'.res # "BindError")
            => \A d \in Callers \ {ret'.c} : ~InFlight(d, ret'.t) ]_vars

\* The query text with each placeholder, where it stands, made "?".
RECURSIVE Rewritten(_, _)
Rewritten(q, i) ==
    IF i > Len(q) THEN <<>>
    ELSE IF q[i] = "$" /\ i < Len(q) /\ q[i + 1] \in Digits
         THEN <<"?">> \o Rewritten(q, DigitRun(q, i + 1) + 1)
         ELSE <<q[i]>> \o Rewritten(q, i + 1)

\* The numbers of the placeholders of q, in the order they occur.
Occurrences(q) == [k \in 1..Len(find_iter(q, 1)) |-> parse_usize(Tail(find_iter(q, 1)[k]))]

\* C23: on SQLite, for a query whose placeholders are all within the
\* parameters, every placeholder becomes one "?", the rest of the text
\* stays, and the k-th bound value is the parameter the k-th placeholder
\* names.
C23_SqliteRewritesEveryPlaceholder ==
    (/\ ret.op = "bind_parameters"
     /\ driver = "Sqlite"
     /\ \A k \in 1..Len(Occurrences(ret.info.query)) :
           Occurrences(ret.info.query)[k] \in 1..Len(ret.info.params))
        => /\ ret.res = "Ok"
           /\ ret.info.converted = Rewritten(ret.info.query, 1)
           /\ Len(ret.info.bound) = Len(Occurrences(ret.info.query))
           /\ \A k \in 1..Len(ret.info.bound) :
                 ret.info.bound[k].pos = Occurrences(ret.info.query)[k]

\* The place of a bound Rust type in the order string, 64-bit integer,
\* double, boolean, date/time/datetime, JSON container.
KindIndex(T) ==
    CASE T = "String" -> 1 [] T = "i64" -> 2 [] T = "f64" -> 3 [] T = "bool" -> 4
      [] T \in {"NaiveDateTime", "NaiveDate", "NaiveTime"} -> 5
      [] T = "Json" -> 6
      [] OTHER -> 0

\* The extraction of the i-th kind of that order succeeds on py.
Succeeds(i, py) ==
    CASE i = 1 -> extract("String", py)
      [] i = 2 -> extract("i64", py)
      [] i = 3 -> extract("f64", py)
      [] i = 4 -> extract("bool", py)
      [] i = 5 -> py \in {"datetime", "date", "time"}
      [] i = 6 -> py \in {"dict", "list"}

\* The statement bound params one for one (the query names each once, in
\* order).
BoundInOrder ==
    /\ ret.op = "bind_parameters"
    /\ Len(ret.info.params) <= 9
    /\ ret.info.query = QueryFor(Len(ret.info.params))

Vocabulary ==
    {"none", "bool", "int", "float", "str", "date", "time", "datetime", "dict", "list"}

\* C25: on each of the three backends a list of parameters of the
\* ParameterValue kinds binds, and a list with a value of no such kind
\* fails with UnsupportedParameterType and no statement.
C25_SameVocabularyOnEveryBackend ==
    BoundInOrder =>
        /\ (\A k \in 1..Len(ret.info.params) : ret.info.params[k] \in Vocabulary)
              => ret.res = "Ok"
        /\ (/\ \A k \in 1..Len(ret.info.params) : ret.info.params[k] \in Vocabulary \cup {"object"}
            /\ \E k \in 1..Len(ret.info.params) : ret.info.params[k] = "object")
              => (ret.res = "UnsupportedParameterType" /\ ret.info.bound = <<>>)

\* Column k of the row is the last one of its name.
LastOfName(row, k) == \A j \in (k + 1)..Len(row) : row[j].name # row[k].name

\* C26: decoding a row never fails and leaves no column out, and a
\* column that is NULL or that no probe decodes comes out as None.
C26_ExhaustedProbesDecodeToNull ==
    ret.op = "bind_result" =>
        /\ ret.res = "Ok"
        /\ \A k \in 1..Len(ret.info.row) :
              /\ \E e \in 1..Len(ret.info.dict) : ret.info.dict[e].name = ret.info.row[k].name
              /\ (/\ LastOfName(ret.info.row, k)
                  /\ FirstProbe(Probes(driver), ret.info.row[k]) = "none")
                    => \E e \in 1..Len(ret.info.dict) :
                          /\ ret.info.dict[e].name = ret.info.row[k].name
                          /\ ret.info.dict[e].py = "none"

\* The driver failed on an item, or on the value of a column of a row.
DriverFailed(fetched) ==
    \E i \in 1..Len(fetched) :
        \/ fetched[i].err
        \/ \E k \in 1..Len(fetched[i].row) : fetched[i].row[k].raw = "bad"

\* The lists of rows handed back (one list for fetch_all, the chunks for
\* stream_data) are all empty.
NoRows(lists) == \A j \in 1..Len(lists) : lists[j] = <<>>

\* C27: when the driver fails on a row or on a value of it, fetch_all
\* and stream_data return QueryError and no row at all.
C27_DriverErrorAbortsTheFetch ==
    (ret.op \in {"fetch_all_rows", "stream_data_rows"} /\ DriverFailed(ret.info.fetched))
        => (ret.res = "QueryError" /\ NoRows(ret.info.rows))

\* C28: a string, an int64, a float64 and a bool each come back from
\* the echo query, on every backend, as a value of the kind that went in.
C28_ScalarsRoundTrip ==
    (ret.op = "echo" /\ ret.info.py \in {"str", "int", "float", "bool"})
        => (ret.res = "Ok" /\ ret.info.out = ret.info.py)

\* The first column of the row that has this name.
FirstOfName(row, name) == CHOOSE k \in 1..Len(row) :
    row[k].name = name /\ \A j \in 1..(k - 1) : row[j].name # name

WasSet(row, k) ==
    ~(driver = "MySql" /\ row[k].raw # "null" /\ FirstProbe(Probes(driver), row[k]) = "none")

EmptyAtRest(t) ==
    /\ t \in txs
    /\ handle[t] = None
    /\ \A c \in Callers : ~InFlight(c, t)

\* C30: a Transaction comes to rest with an empty slot only by a commit
\* or rollback that found no pool to renew from.
C30_HandlePresentAtRest ==
    [][ \A t \in Tx :
          (EmptyAtRest(t)' /\ ~EmptyAtRest(t))
              => /\ ret'.op \in {"commit", "rollback"}
                 /\ ret'.t = t
                 /\ ~ret'.info.pool ]_vars

C32_StreamHoldsTheMutex ==
    \A c \in Callers : call[c].pc = "stream_data" => mutex[call[c].t] = c

\* C33: when execute_request is over for a request that began a
\* transaction, the unit of work has been finalized: a request that ends
\* with its response does so in the step in which its commit() returns,
\* and a request that ends with an error of a middleware or of the handler
\* leaves its Transaction rolled back, or out of the registry so that it
\* is dropped.
C33_FinalizedOnEveryOutcome ==
    [][\A r \in Callers :
          (req'[r].pc # req[r].pc /\ req'[r].pc \in {"done", "aborted"} /\ req[r].tx # None)
              => IF req'[r].out = "response"
                 THEN ret'.op = "commit" /\ ret'.c = r /\ ret'.t = req[r].tx
                 ELSE LET t == req[r].tx
                      IN  req'[r].out \in {"before_error", "after_error", "after_request", "panic"}
                            => \/ \A k \in Keys : registry'[k] # t
                               \/ handle'[t] = None
                               \/ hstate'[handle'[t]] # "open"]_vars

\* C34: whatever the driver, the pool is built with an acquire timeout
\* and an idle timeout that both equal the configured idle_timeout.
C34_AcquireTimeoutIsIdleTimeout ==
    ret.op = "create_pool"
        => /\ ret.info.options.acquire_timeout = ret.info.config.idle_timeout
           /\ ret.info.options.idle_timeout = ret.info.config.idle_timeout

\* C35: with the pool reachable, while a commit() is in flight on a
\* Transaction its caller holds the mutex, and no execute or fetch_all of
\* another caller is running on that Transaction: such a call ran before
\* the commit() took the handle or runs after it has renewed it.
C35_CommitExcludesStatements ==
    \A d \in Callers :
        (reachable /\ call[d].pc = "commit")
            => /\ mutex[call[d].t] = d
               /\ \A c \in Callers \ {d} :
                     ~(call[c].pc \in {"execute", "fetch_all"} /\ call[c].t = call[d].t)

\* C36: when a request that inserted a Transaction comes to the final
\* get/commit/remove, the context id of its response is the id it
\* inserted under, and the lookup finds the Transaction it inserted.
C36_CleanupUsesTheInsertedId ==
    \A r \in Callers :
        (req[r].pc = "cleanup" /\ req[r].tx # None)
            => /\ req[r].ctx = r
               /\ get_session_database(registry, req[r].ctx) = req[r].tx

\* C37: once every request that came in has produced its response, the
\* registry is empty, and the Transaction of no such request keeps a
\* native transaction open on a pool connection unless Python code still
\* holds it or it is about to be dropped.
C37_NothingHeldAfterTheResponses ==
    (\A r \in Callers : req[r].pc \in {"new", "done"})
        => /\ \A k \in Keys : registry[k] = None
           /\ \A r \in Callers :
                 LET t == req[r].tx
                 IN  (req[r].pc = "done" /\ t # None /\ handle[t] # None
                          /\ hstate[handle[t]] = "open")
                        => \/ \E c \in Callers : req[c].held = t
                           \/ Unreferenced(t)

\* The query has a placeholder $n with n = 0 or n beyond the n parameters
\* supplied.
HasBadPlaceholder(q, n) ==
    \E i \in 1..Len(find_iter(q, 1)) :
        LET index == parse_usize(Tail(find_iter(q, 1)[i]))
        IN  index = 0 \/ index > n

\* C38: on SQLite, binding a query that has a placeholder $0 or a
\* placeholder beyond the supplied parameters comes back to the caller as
\* an error value: neither a statement nor a panic.
C38_BadPlaceholderIsAnErrorValue ==
    (/\ ret.op = "bind_parameters"
     /\ driver = "Sqlite"
     /\ HasBadPlaceholder(ret.info.query, Len(ret.info.params)))
        => ret.res \notin {"Ok", "Panic"}

\* C39: once the process-wide pool is set it stays set and stays the same
\* pool, a later set_sql_connect leaves get_sql_connect's answer as it
\* was, and as long as the pool is not set no step begins a transaction
\* or changes the registry.
C39_PoolIsWriteOnce ==
    [][/\ connection = "set"
            => /\ connection' = "set"
               /\ get_sql_connect(SQL_DATABASE_CONNECTION')
                    = get_sql_connect(SQL_DATABASE_CONNECTION)
       /\ (ret' # ret /\ ret'.op = "set_sql_connect" /\ ret'.info.before # "None")
            => ret'.info.after = ret'.info.before
       /\ get_sql_connect(SQL_DATABASE_CONNECTION) = "None"
            => (txs' = txs /\ registry' = registry /\ hstate' = hstate)]_vars

\* set_sql_connect was called with another pool than the one set first,
\* and get_sql_connect still gives the first.
C39_Witness ==
    /\ ret.op = "set_sql_connect"
    /\ ret.info.before # "None" /\ ret.info.given # ret.info.before
    /\ get_sql_connect(SQL_DATABASE_CONNECTION) = ret.info.before
====
